---- MODULE Spec2Model ----
(***************************************************************************)
(* Model of src/demonstrations/spsa.py.                                    *)
(*                                                                         *)
(* The file is a Python module whose body is one string literal (the       *)
(* module docstring, lines 1-103) followed by comments (lines 106-113).    *)
(* The docstring documents three procedures, which are modelled as a state *)
(* machine exactly as the text states them:                                *)
(*   - the SPSA iteration (lines 30-37, 48-54, 76-101),                    *)
(*   - the parameter-shift gradient (lines 14-24),                         *)
(*   - the finite-differences evaluation (lines 53-54).                    *)
(* Real numbers are exact rationals <<n, d>> in lowest terms with d > 0.   *)
(***************************************************************************)
EXTENDS Integers, Sequences, FiniteSets, TLC

(* ---------------- bounds of the model ---------------- *)
MaxSteps == 2
MaxP == 2

(* ---------------- exact rational arithmetic ---------------- *)
Abs(x) == IF x < 0 THEN -x ELSE x

RECURSIVE GCD(_, _)
GCD(a, b) == IF b = 0 THEN a ELSE GCD(b, a % b)

Norm(n, d) ==
    LET s == IF d < 0 THEN -1 ELSE 1
        h == GCD(Abs(n), Abs(d))
    IN  <<(s * n) \div h, (s * d) \div h>>

R(i) == <<i, 1>>
RAdd(x, y) == Norm(x[1] * y[2] + y[1] * x[2], x[2] * y[2])
RSub(x, y) == Norm(x[1] * y[2] - y[1] * x[2], x[2] * y[2])
RMul(x, y) == Norm(x[1] * y[1], x[2] * y[2])
RDiv(x, y) == Norm(x[1] * y[2], x[2] * y[1])
RLt(x, y) == x[1] * y[2] < y[1] * x[2]
RZero == R(0)

RECURSIVE SumSet(_)
SumSet(S) == IF S = {} THEN 0
             ELSE LET x == CHOOSE e \in S : TRUE IN x + SumSet(S \ {x})

RECURSIVE RSumSeq(_)
RSumSeq(s) == IF s = <<>> THEN RZero ELSE RAdd(Head(s), RSumSeq(Tail(s)))

(* ---------------- the module body ---------------- *)
\* The statements of the module: one expression statement, the docstring.
\* The comment block of lines 106-113 is not a statement.
ModuleBodyWithDef ==
    << [kind |-> "docstring", name |-> "__doc__"],
       [kind |-> "def", name |-> "spsa_step"] >>

ModuleBody == << [kind |-> "docstring", name |-> "__doc__"] >>

\* The names a statement binds in the module namespace.
Binds(stmt) ==
    IF stmt.kind \in {"docstring", "def", "class", "assign"}
    THEN {stmt.name} ELSE {}

ExecModule(body) == UNION {Binds(body[j]) : j \in DOMAIN body}

(* ---------------- the documented quantities ---------------- *)
Methods == {"spsa", "parameter-shift", "finite-differences"}

\* The initial parameter vector has all its components equal to one of these.
Theta0Values == {0, 1}

\* The values of the numeric coefficient a_k and of the positive number c_k.
AValues == {<<1, 2>>}
CValues == {<<1, 2>>, <<1, 1>>}

\* The noise of one measurement of L.
NoiseValues == {0, 1}

\* Shifts of the parameter-shift rule (magnitude) and of finite differences.
Shifts == {<<1, 2>>, <<1, 1>>}
FDShifts == {<<1, 2>>, <<-1, 1>>}

\* The values a component of the perturbation vector can take.
DeltaValues == {-1, 0, 1}

\* A distribution is the uniform distribution on a finite set of integers;
\* it is zero-mean when the values sum to 0.
Mean0(S) == SumSet(S) = 0

AnyDists == {S \in SUBSET DeltaValues : S # {}}

ZeroMeanDists == {S \in SUBSET DeltaValues : S # {} /\ Mean0(S)}

\* The Bernoulli distribution over {-1, +1} used "in most cases".
Bernoulli == {-1, 1}

\* The cost function: a differentiable multivariate function of theta.
L(th) == RSumSeq([i \in DOMAIN th |-> RMul(th[i], th[i])])

\* y(theta) = L(theta) + noise
y(th, noise) == RAdd(L(th), R(noise))

VARIABLES
    loaded,     \* the module body has been executed
    namespace,  \* names bound in the module namespace
    method,     \* the procedure being run
    p,          \* number of free parameters
    dist,       \* the distribution of the perturbation components
    pc,         \* position inside the SPSA iteration step
    theta,      \* the current iterate
    base,       \* the iterate at which the last evaluations were made
    steps,      \* completed steps
    evals,      \* evaluations of the cost function so far
    points,     \* the evaluation points of the last step
    Delta,      \* the perturbation vector of the current step
    changed,    \* the perturbation vector differs from the one of the step before
    ck,         \* c_k of the current step
    ak,         \* a_k of the last update
    yplus,      \* y(theta + c_k Delta_k)
    yminus,     \* y(theta - c_k Delta_k)
    g           \* the gradient estimate of the last update

modvars == <<loaded, namespace>>
optvars == <<method, p, dist, pc, theta, base, steps, evals, points,
             Delta, changed, ck, ak, yplus, yminus, g>>
vars == <<loaded, namespace, method, p, dist, pc, theta, base, steps, evals,
          points, Delta, changed, ck, ak, yplus, yminus, g>>

(* ---------------- the SPSA iteration ---------------- *)
\* The perturbation vectors that can be generated: every component is drawn
\* from the distribution, whatever was drawn before.
PerturbationsFixed(d, n, last) ==
    IF last = <<>> THEN [1 .. n -> d] ELSE {last}

Perturbations(d, n, last) == [1 .. n -> d]

\* The two evaluation points: every component is shifted at once.
EvalPointsPerComponent(th, c, D) ==
    [j \in 1 .. 2 * Len(th) |->
        LET i == (j + 1) \div 2
            s == IF j % 2 = 1 THEN R(1) ELSE R(-1)
        IN  [m \in DOMAIN th |->
                IF m = i THEN RAdd(th[m], RMul(s, RMul(c, R(D[m]))))
                ELSE th[m]]]

EvalPoints(th, c, D) ==
    << [i \in DOMAIN th |-> RAdd(th[i], RMul(c, R(D[i])))],
       [i \in DOMAIN th |-> RSub(th[i], RMul(c, R(D[i])))] >>

\* The divisor 2 c_k Delta_ki of component i.
Divisor(c, D, i) == RMul(RMul(R(2), c), R(D[i]))

EstimateDefined(c, D) == \A i \in DOMAIN D : Divisor(c, D, i) # RZero

GradEstimateNoTwo(yp, ym, c, D) ==
    [i \in DOMAIN D |-> RDiv(RSub(yp, ym), RMul(c, R(D[i])))]

GradEstimateSum(yp, ym, c, D) ==
    [i \in DOMAIN D |-> RDiv(RAdd(yp, ym), Divisor(c, D, i))]

GradEstimate(yp, ym, c, D) ==
    [i \in DOMAIN D |-> RDiv(RSub(yp, ym), Divisor(c, D, i))]

NextIterateAscent(th, a, gr) ==
    [i \in DOMAIN th |-> RAdd(th[i], RMul(a, gr[i]))]

NextIterate(th, a, gr) ==
    [i \in DOMAIN th |-> RSub(th[i], RMul(a, gr[i]))]

(* ---------------- parameter shift and finite differences ---------------- *)
PSEvalPointsForward(th, s) ==
    [j \in 1 .. Len(th) + 1 |->
        [m \in DOMAIN th |-> IF m = j THEN RAdd(th[m], s) ELSE th[m]]]

\* Two evaluations per free parameter: a positive and a negative shift.
PSEvalPoints(th, s) ==
    [j \in 1 .. 2 * Len(th) |->
        LET i == (j + 1) \div 2
            sh == IF j % 2 = 1 THEN s ELSE RSub(RZero, s)
        IN  [m \in DOMAIN th |-> IF m = i THEN RAdd(th[m], sh) ELSE th[m]]]

\* One evaluation of finite differences: only component i is shifted.
FDEvalPoint(th, i, h) ==
    [m \in DOMAIN th |-> IF m = i THEN RAdd(th[m], h) ELSE th[m]]

(* ---------------- initial state ---------------- *)
Init ==
    /\ loaded = FALSE
    /\ namespace = {}
    /\ method \in Methods
    /\ p \in 1 .. MaxP
    /\ dist \in IF method = "spsa" THEN ZeroMeanDists ELSE {Bernoulli}
    /\ pc = IF method = "spsa" THEN "perturb" ELSE "run"
    /\ theta \in {[i \in 1 .. p |-> R(v)] : v \in Theta0Values}
    /\ base = theta
    /\ steps = 0
    /\ evals = 0
    /\ points = <<>>
    /\ Delta = <<>>
    /\ changed = FALSE
    /\ ck = R(1)
    /\ ak = R(1)
    /\ yplus = RZero
    /\ yminus = RZero
    /\ g = [i \in 1 .. p |-> RZero]

(* ---------------- actions ---------------- *)
\* Executing the module body (import).
LoadModule ==
    /\ ~loaded
    /\ loaded' = TRUE
    /\ namespace' = ExecModule(ModuleBody)
    /\ UNCHANGED optvars

\* lines 96-101: a step begins: the perturbation vector of the step is
\* generated; the measurements and the estimate of the step before are
\* discarded.
Perturb ==
    /\ method = "spsa"
    /\ pc = "perturb"
    /\ steps < MaxSteps
    /\ \E D \in Perturbations(dist, p, Delta), c \in CValues :
          /\ Delta' = D
          /\ ck' = c
    /\ changed' = (Delta # <<>> /\ Delta' # Delta)
    /\ points' = <<>>
    /\ base' = theta
    /\ ak' = R(1)
    /\ yplus' = RZero
    /\ yminus' = RZero
    /\ g' = [i \in 1 .. p |-> RZero]
    /\ pc' = "measure"
    /\ UNCHANGED <<modvars, method, p, dist, theta, steps, evals>>

\* lines 50-52, 89, 93-94: the cost function is measured at the perturbed
\* parameter vectors.
Measure ==
    /\ method = "spsa"
    /\ pc = "measure"
    /\ points' = EvalPoints(theta, ck, Delta)
    /\ base' = theta
    /\ \E n1 \in NoiseValues, n2 \in NoiseValues :
          /\ yplus' = y(points'[1], n1)
          /\ yminus' = y(points'[Len(points')], n2)
    /\ evals' = evals + Len(points')
    /\ pc' = "estimate"
    /\ UNCHANGED <<modvars, method, p, dist, theta, steps, Delta, changed,
                   ck, ak, g>>

\* lines 80, 93-94: the gradient estimate and the next iterate.
Update ==
    /\ method = "spsa"
    /\ pc = "estimate"
    /\ EstimateDefined(ck, Delta)
    /\ \E a \in AValues :
          /\ ak' = a
          /\ g' = GradEstimate(yplus, yminus, ck, Delta)
          /\ theta' = NextIterate(theta, a, g')
    /\ steps' = steps + 1
    /\ pc' = "perturb"
    /\ UNCHANGED <<modvars, method, p, dist, base, evals, points, Delta,
                   changed, ck, yplus, yminus>>

\* lines 93-94 with a divisor 2 c_k Delta_ki = 0: the quotient has no value
\* and the iteration cannot continue.
EstimateUndefined ==
    /\ method = "spsa"
    /\ pc = "estimate"
    /\ ~EstimateDefined(ck, Delta)
    /\ pc' = "undefined"
    /\ UNCHANGED <<modvars, method, p, dist, theta, base, steps, evals,
                   points, Delta, changed, ck, ak, yplus, yminus, g>>

\* lines 14-24: one optimization step with the parameter-shift gradient.
\* The text documents the evaluations of the step, not the parameter update.
ParameterShiftStep ==
    /\ method = "parameter-shift"
    /\ steps < MaxSteps
    /\ \E s \in Shifts : points' = PSEvalPoints(theta, s)
    /\ base' = theta
    /\ evals' = evals + Len(points')
    /\ steps' = steps + 1
    /\ UNCHANGED <<modvars, method, p, dist, pc, theta, Delta, changed,
                   ck, ak, yplus, yminus, g>>

\* lines 53-54: one evaluation of a finite-differences method.
FDEvaluation ==
    /\ method = "finite-differences"
    /\ steps < MaxSteps
    /\ \E i \in 1 .. p, h \in FDShifts : points' = <<FDEvalPoint(theta, i, h)>>
    /\ base' = theta
    /\ evals' = evals + 1
    /\ steps' = steps + 1
    /\ UNCHANGED <<modvars, method, p, dist, pc, theta, Delta, changed,
                   ck, ak, yplus, yminus, g>>

Next ==
    \/ LoadModule
    \/ Perturb
    \/ Measure
    \/ Update
    \/ EstimateUndefined
    \/ ParameterShiftStep
    \/ FDEvaluation

Spec == Init /\ [][Next]_vars

(* ======================= the claims ======================= *)

\* C1: executing the module body binds nothing but the module docstring
\* (no function, class or variable) and leaves all other state unchanged.
ModuleLoadHasNoEffect ==
    [][loaded' # loaded =>
          /\ namespace' = {"__doc__"}
          /\ UNCHANGED optvars]_vars

ModuleLoadedWitness ==
    /\ loaded
    /\ namespace = {"__doc__"}
    /\ evals > 0

\* C2: every SPSA iteration step performs exactly two evaluations of the
\* cost function whatever the number p of free parameters is; after n'
\* steps the total is 2 * n'.
SPSATwoEvaluationsPerStep ==
    method = "spsa" =>
        /\ pc \in {"perturb", "measure"} => evals = 2 * steps
        /\ pc \in {"estimate", "undefined"} => evals = 2 * steps + 2
        /\ points # <<>> => Len(points) = 2

SPSATwoEvaluationsWitness ==
    /\ method = "spsa"
    /\ p >= 2
    /\ steps >= 2
    /\ pc = "perturb"
    /\ evals = 4

\* C3: with the parameter-shift rule every free parameter costs exactly two
\* evaluations, one with a positive and one with a negative shift of that
\* parameter alone, so a gradient costs 2 * k evaluations and n steps cost
\* 2 * k * n.
OnlyShifted(pt, i) == \A m \in 1 .. p : m # i => pt[m] = base[m]

ParameterShiftCost ==
    method = "parameter-shift" =>
        /\ evals = 2 * p * steps
        /\ steps > 0 =>
              /\ Len(points) = 2 * p
              /\ \A i \in 1 .. p :
                    /\ Cardinality({j \in DOMAIN points :
                           OnlyShifted(points[j], i)
                           /\ RLt(base[i], points[j][i])}) = 1
                    /\ Cardinality({j \in DOMAIN points :
                           OnlyShifted(points[j], i)
                           /\ RLt(points[j][i], base[i])}) = 1

ParameterShiftWitness ==
    /\ method = "parameter-shift"
    /\ p >= 2
    /\ steps >= 2
    /\ evals = 4 * p

\* C4: the next SPSA iterate is theta_k - a_k * g_k componentwise, where g_k
\* is estimated from measurements placed around the current iterate theta_k.
SPSAUpdateRule ==
    [][(method = "spsa" /\ steps' = steps + 1) =>
          /\ base = theta
          /\ \A i \in 1 .. p :
                /\ RAdd(theta'[i], RMul(ak', g'[i])) = theta[i]
                /\ RAdd(points[1][i], points[2][i]) = RMul(R(2), theta[i])]_vars

SPSAUpdateWitness ==
    /\ method = "spsa"
    /\ pc = "perturb"
    /\ steps >= 2
    /\ theta # base
    /\ \E i \in 1 .. p : g[i] # RZero

\* C5: every component i of the SPSA gradient estimate is the difference of
\* the same two measurements y(theta + c Delta) - y(theta - c Delta) divided
\* by 2 * c_k * Delta_ki, with c_k > 0.
IsMeasurementAt(v, pt) == RSub(v, L(pt)) \in {R(n) : n \in NoiseValues}

SPSAGradientEstimate ==
    [][(method = "spsa" /\ steps' = steps + 1) =>
          /\ RLt(RZero, ck)
          /\ IsMeasurementAt(yplus,
                [i \in 1 .. p |-> RAdd(theta[i], RMul(ck, R(Delta[i])))])
          /\ IsMeasurementAt(yminus,
                [i \in 1 .. p |-> RSub(theta[i], RMul(ck, R(Delta[i])))])
          /\ \A i \in 1 .. p :
                RMul(g'[i], RMul(R(2), RMul(ck, R(Delta[i]))))
                    = RSub(yplus, yminus)
          /\ \A i, j \in 1 .. p :
                RMul(g'[i], R(Delta[i])) = RMul(g'[j], R(Delta[j]))]_vars

SPSAGradientWitness ==
    /\ method = "spsa"
    /\ pc = "perturb"
    /\ steps >= 1
    /\ p >= 2
    /\ yplus # yminus
    /\ g[1] # g[2]

FreshPerturbation ==
    method = "spsa" =>
        /\ Mean0(dist)
        /\ Delta # <<>> => \A i \in 1 .. p : Delta[i] \in dist
        /\ (pc = "perturb" /\ steps < MaxSteps) =>
              \A D \in [1 .. p -> dist] : ENABLED (Perturb /\ Delta' = D)

FreshPerturbationWitness ==
    /\ method = "spsa"
    /\ dist = Bernoulli
    /\ pc = "measure"
    /\ steps >= 1
    /\ changed

EqualMeasurementsNoMove ==
    [][(method = "spsa" /\ steps' = steps + 1 /\ yplus = yminus) =>
          /\ \A i \in 1 .. p : g'[i] = RZero
          /\ theta' = theta]_vars

EqualMeasurementsWitness ==
    /\ method = "spsa"
    /\ pc = "perturb"
    /\ steps >= 1
    /\ yplus = yminus
    /\ yplus # RZero
    /\ \A i \in 1 .. p : Delta[i] # 0
    /\ theta = base

====
